---- MODULE Spec2Model ----
(***************************************************************************)
(* A model of the JobHunt automation: job normalization, fuzzy            *)
(* de-duplication, rule based filtering and storage (job_models.py,       *)
(* job_processor.py) and the caption / posting cycle that the            *)
(* orchestrator runs over the document store (orchestrator.py).           *)
(*                                                                         *)
(* Text is modelled character by character: a Python str is a sequence of *)
(* one-character strings, so that lower(), strip(), split(), substring    *)
(* tests, the regular expressions and the similarity ratios are computed  *)
(* the way the code computes them.                                        *)
(***************************************************************************)
EXTENDS Integers, Sequences, FiniteSets, TLC

--------------------------------------------------------------------------
(* Python str primitives                                                   *)

UPPERCASE ==
  <<"A","B","C","D","E","F","G","H","I","J","K","L","M",
    "N","O","P","Q","R","S","T","U","V","W","X","Y","Z">>

LOWERCASE ==
  <<"a","b","c","d","e","f","g","h","i","j","k","l","m",
    "n","o","p","q","r","s","t","u","v","w","x","y","z">>

DIGITS == <<"0","1","2","3","4","5","6","7","8","9">>

WHITESPACE == {" "}

\* code point order of the characters the model uses (ASCII)
ASCII == <<" ","#","+","-",".","/">> \o DIGITS \o <<":">> \o UPPERCASE \o <<"_">> \o LOWERCASE

Range(s) == {s[i] : i \in 1..Len(s)}

IndexOf(seq, c) == CHOOSE i \in 1..Len(seq) : seq[i] = c

ord(c) == IndexOf(ASCII, c)

is_digit(c) == c \in Range(DIGITS)

digit_value(c) == IndexOf(DIGITS, c) - 1

lower_char(c) == IF c \in Range(UPPERCASE) THEN LOWERCASE[IndexOf(UPPERCASE, c)] ELSE c

\* str.lower()
lower(s) == [i \in 1..Len(s) |-> lower_char(s[i])]

Max(a, b) == IF a >= b THEN a ELSE b

Min(a, b) == IF a <= b THEN a ELSE b

\* the least and the greatest element of a non-empty set of integers
least(S) == CHOOSE i \in S : \A j \in S : i <= j

greatest(S) == CHOOSE i \in S : \A j \in S : i >= j

\* the positions of s that hold no whitespace
inked(s) == {i \in 1..Len(s) : s[i] \notin WHITESPACE}

lstrip(s) == IF inked(s) = {} THEN <<>> ELSE SubSeq(s, least(inked(s)), Len(s))

rstrip(s) == IF inked(s) = {} THEN <<>> ELSE SubSeq(s, 1, greatest(inked(s)))

\* str.strip()
strip(s) == rstrip(lstrip(s))

\* s[i:] and s[:n] of Python
from_(s, i) == SubSeq(s, i, Len(s))

prefix(s, n) == SubSeq(s, 1, Min(n, Len(s)))

\* needle == hay[i : i+len(needle)]
starts_at(hay, needle, i) ==
  /\ i + Len(needle) - 1 <= Len(hay)
  /\ \A k \in 1..Len(needle) : hay[i + k - 1] = needle[k]

\* `needle in hay` of Python
contains(hay, needle) == \E i \in 1..(Len(hay) + 1) : starts_at(hay, needle, i)

\* str.split(): the maximal runs of non-whitespace characters
split_from(s, starts) ==
  [n \in 1..Cardinality(starts) |->
     LET i == CHOOSE i \in starts : Cardinality({j \in starts : j < i}) = n - 1
         e == least({j \in i..Len(s) : j = Len(s) \/ s[j + 1] \in WHITESPACE})
     IN  SubSeq(s, i, e)]

split(s) ==
  split_from(s, {i \in inked(s) : i = 1 \/ s[i - 1] \in WHITESPACE})

\* sep.join(parts)
RECURSIVE join(_, _)
join(sep, parts) ==
  IF parts = <<>> THEN <<>>
  ELSE IF Len(parts) = 1 THEN parts[1]
  ELSE parts[1] \o sep \o join(sep, Tail(parts))

\* a < b for Python str (code point order, a proper prefix is smaller)
str_lt(a, b) ==
  LET differ == {i \in 1..Min(Len(a), Len(b)) : a[i] # b[i]} IN
  IF differ = {} THEN Len(a) < Len(b)
  ELSE ord(a[least(differ)]) < ord(b[least(differ)])

\* sorted(tokens)
\* the place of toks[k] in the sorted list (the sort is stable)
place(toks, k) ==
  1 + Cardinality({j \in 1..Len(toks) :
                     str_lt(toks[j], toks[k]) \/ (toks[j] = toks[k] /\ j < k)})

sorted_(toks) ==
  [p \in 1..Len(toks) |-> toks[CHOOSE k \in 1..Len(toks) : place(toks, k) = p]]

--------------------------------------------------------------------------
(* fuzzywuzzy, as is_duplicate_job calls it                                *)

\* one row of the longest-common-subsequence table, from the row before:
\* entry j + 1 is for the first j characters of b, and the best use of c
\* pairs it with its last occurrence among them
lcs_row(c, b, prev) ==
  <<0>> \o [j \in 1..Len(b) |->
            LET hits == {k \in 1..j : b[k] = c} IN
            IF hits = {} THEN prev[j + 1]
            ELSE Max(prev[j + 1], prev[greatest(hits)] + 1)]

RECURSIVE lcs_rows(_, _, _, _)
lcs_rows(a, b, i, prev) ==
  IF i > Len(a) THEN prev[Len(b) + 1]
  ELSE lcs_rows(a, b, i + 1, lcs_row(a[i], b, prev))

\* the number of matching characters of the two strings
matches(a, b) == lcs_rows(a, b, 1, [j \in 1..(Len(b) + 1) |-> 0])

\* int(round(x)) for x = num / den, Python 3 rounding (half to even)
intr(num, den) ==
  LET q == num \div den
      r == num % den
  IN  IF 2 * r > den THEN q + 1
      ELSE IF 2 * r < den THEN q
      ELSE IF q % 2 = 0 THEN q ELSE q + 1

\* fuzz.ratio(s1, s2): 100 for equal strings, 0 when one is empty,
\* else 100 * 2M / T rounded
ratio(s1, s2) ==
  IF s1 = s2 THEN 100
  ELSE IF Len(s1) = 0 \/ Len(s2) = 0 THEN 0
  ELSE intr(100 * 2 * matches(s1, s2), Len(s1) + Len(s2))

\* utils.full_process on the model's alphabet: every character that is
\* neither a letter nor a digit becomes a space, then lower() and strip()
full_process(s) ==
  strip(lower([i \in 1..Len(s) |->
     IF s[i] \in Range(UPPERCASE) \cup Range(LOWERCASE) \cup Range(DIGITS)
     THEN s[i] ELSE " "]))

\* fuzz.token_sort_ratio(s1, s2): the ratio of the strings with their
\* tokens sorted
process_and_sort(s) == strip(join(<<" ">>, sorted_(split(full_process(s)))))

token_sort_ratio(s1, s2) == ratio(process_and_sort(s1), process_and_sort(s2))

--------------------------------------------------------------------------
(* Python values                                                           *)

\* None, told apart from every str (whose elements are single characters)
NONE == <<"<None>">>

\* bool(v) of a str or None
truthy(v) == v # NONE /\ v # <<>>

str_year == <<"y","e","a","r">>
str_experience == <<"e","x","p","e","r","i","e","n","c","e">>
str_to == <<"t","o">>
str_less == <<"l","e","s","s">>
str_than == <<"t","h","a","n">>
str_upto == <<"u","p","t","o">>
str_max == <<"m","a","x">>
str_of == <<"o","f">>
str_level == <<"l","e","v","e","l">>
str_required == <<"r","e","q","u","i","r","e","d">>
str_minimum == <<"m","i","n","i","m","u","m">>
str_at == <<"a","t">>
str_least == <<"l","e","a","s","t">>
str_None == <<"N","o","n","e">>

\* str(v)
str(v) == IF v = NONE THEN str_None ELSE v

\* the `years <= 2` / `years > 2` of the filters
max_years == 2

\* int(digits)
RECURSIVE int_(_)
int_(ds) == IF ds = <<>> THEN 0 ELSE 10 * int_(SubSeq(ds, 1, Len(ds) - 1)) + digit_value(ds[Len(ds)])

--------------------------------------------------------------------------
(* The regular expressions of job_processor.py.  A pattern is a sequence   *)
(* of elements: a literal, (\d+), an optional character of a class, or a   *)
(* run of characters of a class.  In every pattern of the code the element *)
(* after a greedy one cannot start with a character the greedy one takes, *)
(* so the greedy match is the only match from a position.                  *)

LIT(s) == [k |-> "lit", s |-> s]

NUM == [k |-> "num"]

OPT(cs) == [k |-> "opt", cs |-> cs]

STAR(cs) == [k |-> "star", cs |-> cs]

\* \s*
SP == <<STAR(WHITESPACE)>>

\* [\+-]?
SIGN == <<OPT({"+", "-"})>>

\* years?
YEARS == <<LIT(str_year), OPT({"s"})>>

\* the end of the run of characters of class cs that starts at pos
run_end(text, pos, cs) ==
  least({q \in pos..(Len(text) + 1) : q = Len(text) + 1 \/ text[q] \notin cs})

\* the match of pat[k..] at text[pos..]: group(1) as an integer, or -1
RECURSIVE match_at(_, _, _, _, _)
match_at(pat, k, text, pos, cap) ==
  IF k > Len(pat) THEN cap
  ELSE LET e == pat[k] IN
    CASE e.k = "lit" ->
           IF starts_at(text, e.s, pos)
           THEN match_at(pat, k + 1, text, pos + Len(e.s), cap) ELSE -1
      [] e.k = "opt" ->
           IF pos <= Len(text) /\ text[pos] \in e.cs
           THEN match_at(pat, k + 1, text, pos + 1, cap)
           ELSE match_at(pat, k + 1, text, pos, cap)
      [] e.k = "star" ->
           match_at(pat, k + 1, text, run_end(text, pos, e.cs), cap)
      [] e.k = "num" ->
           LET q == run_end(text, pos, Range(DIGITS)) IN
           IF q = pos THEN -1
           ELSE match_at(pat, k + 1, text, q,
                         IF cap = -1 THEN int_(SubSeq(text, pos, q - 1)) ELSE cap)

\* int(re.search(pat, text).group(1)), or -1 when there is no match:
\* the match at the leftmost position that has one
search_from(pat, text, pos) ==
  LET found == {p \in pos..(Len(text) + 1) : match_at(pat, 1, text, p, -1) # -1} IN
  IF found = {} THEN -1 ELSE match_at(pat, 1, text, least(found), -1)

re_search(pat, text) == search_from(pat, text, 1)

\* experience_patterns of _passes_seniority_filter and _passes_job_title_filter
experience_patterns ==
  << <<NUM>> \o SIGN \o SP \o YEARS,
     <<NUM>> \o SP \o <<LIT(str_to)>> \o SP \o <<NUM>> \o SP \o YEARS,
     <<LIT(str_less)>> \o SP \o <<LIT(str_than)>> \o SP \o <<NUM>> \o SP \o YEARS,
     <<LIT(str_upto)>> \o SP \o <<NUM>> \o SP \o YEARS,
     <<LIT(str_max)>> \o SP \o <<NUM>> \o SP \o YEARS >>

EXPERIENCE == SP \o <<LIT(str_experience)>>

OF_EXPERIENCE == SP \o <<LIT(str_of)>> \o SP \o <<LIT(str_experience)>>

\* [:\s]*
COLONS == <<STAR(WHITESPACE \cup {":"})>>

\* entry_level_patterns of _passes_experience_filter
entry_level_patterns ==
  << <<NUM>> \o SIGN \o SP \o YEARS \o EXPERIENCE,
     <<NUM>> \o SP \o <<LIT(str_to)>> \o SP \o <<NUM>> \o SP \o YEARS \o EXPERIENCE,
     <<LIT(str_less)>> \o SP \o <<LIT(str_than)>> \o SP \o <<NUM>> \o SP \o YEARS \o EXPERIENCE,
     <<LIT(str_upto)>> \o SP \o <<NUM>> \o SP \o YEARS \o EXPERIENCE,
     <<LIT(str_max)>> \o SP \o <<NUM>> \o SP \o YEARS \o EXPERIENCE,
     <<NUM>> \o SIGN \o SP \o YEARS \o OF_EXPERIENCE,
     <<NUM>> \o SP \o <<LIT(str_to)>> \o SP \o <<NUM>> \o SP \o YEARS \o OF_EXPERIENCE,
     <<LIT(str_experience)>> \o SP \o <<LIT(str_level)>> \o COLONS \o <<NUM>> \o SIGN \o SP \o YEARS,
     <<LIT(str_required)>> \o SP \o <<LIT(str_experience)>> \o COLONS \o <<NUM>> \o SIGN \o SP \o YEARS,
     <<LIT(str_minimum)>> \o SP \o <<LIT(str_experience)>> \o COLONS \o <<NUM>> \o SIGN \o SP \o YEARS >>

\* senior_patterns of _passes_experience_filter
senior_patterns ==
  << <<NUM>> \o SIGN \o SP \o YEARS \o EXPERIENCE,
     <<NUM>> \o SP \o <<LIT(str_to)>> \o SP \o <<NUM>> \o SP \o YEARS \o EXPERIENCE,
     <<LIT(str_minimum)>> \o SP \o <<NUM>> \o SIGN \o SP \o YEARS \o EXPERIENCE,
     <<LIT(str_at)>> \o SP \o <<LIT(str_least)>> \o SP \o <<NUM>> \o SIGN \o SP \o YEARS \o EXPERIENCE,
     <<NUM>> \o SIGN \o SP \o YEARS \o OF_EXPERIENCE >>

\* JobNormalizer.SKILL_KEYWORDS, in the dictionary's order
SKILL_KEYWORDS ==
  << [category |-> <<"p","y","t","h","o","n">>,
      keywords |-> << <<"p","y","t","h","o","n">>,
                    <<"d","j","a","n","g","o">>,
                    <<"f","l","a","s","k">>,
                    <<"f","a","s","t","a","p","i">>,
                    <<"p","a","n","d","a","s">>,
                    <<"n","u","m","p","y">> >>],
     [category |-> <<"m","a","c","h","i","n","e","_","l","e","a","r","n","i","n","g">>,
      keywords |-> << <<"m","a","c","h","i","n","e"," ","l","e","a","r","n","i","n","g">>,
                    <<"m","l">>,
                    <<"a","i">>,
                    <<"a","r","t","i","f","i","c","i","a","l"," ","i","n","t","e","l","l","i","g","e","n","c","e">>,
                    <<"d","e","e","p"," ","l","e","a","r","n","i","n","g">> >>],
     [category |-> <<"d","a","t","a","_","s","c","i","e","n","c","e">>,
      keywords |-> << <<"d","a","t","a"," ","s","c","i","e","n","c","e">>,
                    <<"d","a","t","a"," ","s","c","i","e","n","t","i","s","t">>,
                    <<"a","n","a","l","y","t","i","c","s">>,
                    <<"s","t","a","t","i","s","t","i","c","s">> >>],
     [category |-> <<"n","l","p">>,
      keywords |-> << <<"n","l","p">>,
                    <<"n","a","t","u","r","a","l"," ","l","a","n","g","u","a","g","e"," ","p","r","o","c","e","s","s","i","n","g">>,
                    <<"t","e","x","t"," ","m","i","n","i","n","g">>,
                    <<"c","o","m","p","u","t","a","t","i","o","n","a","l"," ","l","i","n","g","u","i","s","t","i","c","s">> >>],
     [category |-> <<"w","e","b","_","d","e","v","e","l","o","p","m","e","n","t">>,
      keywords |-> << <<"w","e","b"," ","d","e","v","e","l","o","p","m","e","n","t">>,
                    <<"f","r","o","n","t","e","n","d">>,
                    <<"b","a","c","k","e","n","d">>,
                    <<"f","u","l","l"," ","s","t","a","c","k">>,
                    <<"r","e","a","c","t">>,
                    <<"a","n","g","u","l","a","r">>,
                    <<"v","u","e">> >>],
     [category |-> <<"d","a","t","a","_","e","n","g","i","n","e","e","r","i","n","g">>,
      keywords |-> << <<"d","a","t","a"," ","e","n","g","i","n","e","e","r","i","n","g">>,
                    <<"e","t","l">>,
                    <<"d","a","t","a"," ","p","i","p","e","l","i","n","e">>,
                    <<"b","i","g"," ","d","a","t","a">>,
                    <<"h","a","d","o","o","p">>,
                    <<"s","p","a","r","k">> >>],
     [category |-> <<"s","o","f","t","w","a","r","e","_","e","n","g","i","n","e","e","r","i","n","g">>,
      keywords |-> << <<"s","o","f","t","w","a","r","e"," ","e","n","g","i","n","e","e","r","i","n","g">>,
                    <<"s","o","f","t","w","a","r","e"," ","d","e","v","e","l","o","p","m","e","n","t">>,
                    <<"p","r","o","g","r","a","m","m","i","n","g">>,
                    <<"c","o","d","i","n","g">> >>],
     [category |-> <<"c","l","o","u","d">>,
      keywords |-> << <<"a","w","s">>,
                    <<"a","z","u","r","e">>,
                    <<"g","c","p">>,
                    <<"c","l","o","u","d"," ","c","o","m","p","u","t","i","n","g">>,
                    <<"d","o","c","k","e","r">>,
                    <<"k","u","b","e","r","n","e","t","e","s">> >>],
     [category |-> <<"d","a","t","a","b","a","s","e">>,
      keywords |-> << <<"s","q","l">>,
                    <<"m","y","s","q","l">>,
                    <<"p","o","s","t","g","r","e","s","q","l">>,
                    <<"m","o","n","g","o","d","b">>,
                    <<"r","e","d","i","s">>,
                    <<"d","a","t","a","b","a","s","e">> >>],
     [category |-> <<"d","e","v","o","p","s">>,
      keywords |-> << <<"d","e","v","o","p","s">>,
                    <<"c","i","/","c","d">>,
                    <<"j","e","n","k","i","n","s">>,
                    <<"g","i","t">>,
                    <<"t","e","r","r","a","f","o","r","m">>,
                    <<"a","n","s","i","b","l","e">> >>] >>

\* JobNormalizer.SENIORITY_INDICATORS, in the dictionary's order
SENIORITY_INDICATORS ==
  << [level |-> <<"f","r","e","s","h","e","r">>,
      indicators |-> << <<"f","r","e","s","h","e","r">>,
                      <<"e","n","t","r","y"," ","l","e","v","e","l">>,
                      <<"j","u","n","i","o","r">>,
                      <<"0","-","1"," ","y","e","a","r","s">>,
                      <<"0","-","2"," ","y","e","a","r","s">> >>],
     [level |-> <<"j","u","n","i","o","r">>,
      indicators |-> << <<"j","u","n","i","o","r">>,
                      <<"1","-","3"," ","y","e","a","r","s">>,
                      <<"2","-","4"," ","y","e","a","r","s">>,
                      <<"a","s","s","o","c","i","a","t","e">> >>],
     [level |-> <<"m","i","d">>,
      indicators |-> << <<"m","i","d"," ","l","e","v","e","l">>,
                      <<"3","-","5"," ","y","e","a","r","s">>,
                      <<"4","-","6"," ","y","e","a","r","s">>,
                      <<"i","n","t","e","r","m","e","d","i","a","t","e">> >>],
     [level |-> <<"s","e","n","i","o","r">>,
      indicators |-> << <<"s","e","n","i","o","r">>,
                      <<"5","+"," ","y","e","a","r","s">>,
                      <<"6","+"," ","y","e","a","r","s">>,
                      <<"l","e","a","d">>,
                      <<"p","r","i","n","c","i","p","a","l">> >>],
     [level |-> <<"e","x","p","e","r","t">>,
      indicators |-> << <<"e","x","p","e","r","t">>,
                      <<"8","+"," ","y","e","a","r","s">>,
                      <<"1","0","+"," ","y","e","a","r","s">>,
                      <<"a","r","c","h","i","t","e","c","t">>,
                      <<"s","t","a","f","f">> >>] >>

\* _passes_job_title_filter: entry_level_indicators
entry_level_indicators ==
  << <<"f","r","e","s","h","e","r">>,
     <<"j","u","n","i","o","r">>,
     <<"e","n","t","r","y"," ","l","e","v","e","l">>,
     <<"e","n","t","r","y","-","l","e","v","e","l">>,
     <<"a","s","s","o","c","i","a","t","e">>,
     <<"a","s","s","i","s","t","a","n","t">>,
     <<"t","r","a","i","n","e","e">>,
     <<"i","n","t","e","r","n">>,
     <<"i","n","t","e","r","n","s","h","i","p">>,
     <<"n","e","w"," ","g","r","a","d">>,
     <<"n","e","w"," ","g","r","a","d","u","a","t","e">>,
     <<"r","e","c","e","n","t"," ","g","r","a","d","u","a","t","e">>,
     <<"s","t","u","d","e","n","t">>,
     <<"a","p","p","r","e","n","t","i","c","e">>,
     <<"e","n","t","r","y">>,
     <<"b","e","g","i","n","n","e","r">>,
     <<"j","u","n","i","o","r"," ","d","e","v","e","l","o","p","e","r">>,
     <<"j","u","n","i","o","r"," ","e","n","g","i","n","e","e","r">>,
     <<"j","u","n","i","o","r"," ","a","n","a","l","y","s","t">>,
     <<"j","u","n","i","o","r"," ","s","c","i","e","n","t","i","s","t">>,
     <<"j","u","n","i","o","r"," ","c","o","n","s","u","l","t","a","n","t">> >>

\* _passes_experience_filter: entry_level_keywords
entry_level_keywords ==
  << <<"f","r","e","s","h","e","r">>,
     <<"j","u","n","i","o","r">>,
     <<"e","n","t","r","y"," ","l","e","v","e","l">>,
     <<"e","n","t","r","y","-","l","e","v","e","l">>,
     <<"a","s","s","o","c","i","a","t","e">>,
     <<"a","s","s","i","s","t","a","n","t">>,
     <<"t","r","a","i","n","e","e">>,
     <<"i","n","t","e","r","n">>,
     <<"i","n","t","e","r","n","s","h","i","p">>,
     <<"n","e","w"," ","g","r","a","d">>,
     <<"n","e","w"," ","g","r","a","d","u","a","t","e">>,
     <<"r","e","c","e","n","t"," ","g","r","a","d","u","a","t","e">>,
     <<"s","t","u","d","e","n","t">>,
     <<"a","p","p","r","e","n","t","i","c","e">>,
     <<"e","n","t","r","y">>,
     <<"b","e","g","i","n","n","e","r">>,
     <<"g","r","a","d","u","a","t","e">>,
     <<"f","r","e","s","h"," ","g","r","a","d","u","a","t","e">>,
     <<"n","o"," ","e","x","p","e","r","i","e","n","c","e">>,
     <<"0"," ","e","x","p","e","r","i","e","n","c","e">>,
     <<"z","e","r","o"," ","e","x","p","e","r","i","e","n","c","e">>,
     <<"f","i","r","s","t"," ","j","o","b">>,
     <<"f","i","r","s","t"," ","r","o","l","e">>,
     <<"e","n","t","r","y"," ","p","o","s","i","t","i","o","n">>,
     <<"j","u","n","i","o","r"," ","p","o","s","i","t","i","o","n">>,
     <<"a","s","s","o","c","i","a","t","e"," ","p","o","s","i","t","i","o","n">>,
     <<"t","r","a","i","n","e","e"," ","p","o","s","i","t","i","o","n">> >>

\* _passes_experience_filter: senior_keywords
senior_keywords ==
  << <<"s","e","n","i","o","r">>,
     <<"l","e","a","d">>,
     <<"p","r","i","n","c","i","p","a","l">>,
     <<"a","r","c","h","i","t","e","c","t">>,
     <<"m","a","n","a","g","e","r">>,
     <<"h","e","a","d">>,
     <<"c","h","i","e","f">>,
     <<"s","t","a","f","f">>,
     <<"d","i","r","e","c","t","o","r">>,
     <<"v","p">>,
     <<"c","-","l","e","v","e","l">>,
     <<"e","x","e","c","u","t","i","v","e">>,
     <<"t","e","a","m"," ","l","e","a","d">>,
     <<"t","e","c","h"," ","l","e","a","d">>,
     <<"e","n","g","i","n","e","e","r","i","n","g"," ","m","a","n","a","g","e","r">>,
     <<"s","e","n","i","o","r"," ","d","e","v","e","l","o","p","e","r">>,
     <<"s","e","n","i","o","r"," ","e","n","g","i","n","e","e","r">>,
     <<"s","e","n","i","o","r"," ","a","n","a","l","y","s","t">>,
     <<"s","e","n","i","o","r"," ","s","c","i","e","n","t","i","s","t">>,
     <<"s","e","n","i","o","r"," ","c","o","n","s","u","l","t","a","n","t">>,
     <<"e","x","p","e","r","i","e","n","c","e","d">>,
     <<"e","x","p","e","r","t">>,
     <<"s","p","e","c","i","a","l","i","s","t">> >>

--------------------------------------------------------------------------
(* job_models.py: Job, JobNormalizer, is_duplicate_job                     *)

\* dict.get(key, default)
py_get(d, key, default) == IF key \in DOMAIN d THEN d[key] ELSE default

\* an element of a fetched list that is no dict (a JSON string, a null):
\* a call of its .get raises AttributeError
NOT_A_DICT == [not_a_dict |-> NONE]

is_dict(raw) == "not_a_dict" \notin DOMAIN raw

\* the loop shared by the _extract_* methods: the first field whose value
\* is truthy, as str(value).strip(); otherwise the default
RECURSIVE extract_field(_, _, _, _)
extract_field(raw_job, fields, i, default) ==
  IF i > Len(fields) THEN default
  ELSE IF truthy(py_get(raw_job, fields[i], NONE))
       THEN strip(str(raw_job[fields[i]]))
       ELSE extract_field(raw_job, fields, i + 1, default)

_extract_title(raw_job) ==
  extract_field(raw_job, <<"title", "job_title", "position", "role">>, 1, <<>>)

_extract_company(raw_job) ==
  extract_field(raw_job, <<"company", "company_name", "employer", "organization">>, 1, <<>>)

_extract_location(raw_job) ==
  extract_field(raw_job, <<"location", "city", "place", "address">>, 1, <<>>)

_extract_description(raw_job) ==
  extract_field(raw_job, <<"description", "summary", "details", "requirements">>, 1, NONE)

_extract_apply_url(raw_job) ==
  extract_field(raw_job, <<"apply_url", "url", "link", "application_url", "apply_link">>, 1, <<>>)

\* \w of the regular expressions
is_word_char(c) == c \in Range(UPPERCASE) \cup Range(LOWERCASE) \cup Range(DIGITS) \cup {"_"}

\* \b at the gap before text[pos]
word_boundary(text, pos) ==
  (pos > 1 /\ is_word_char(text[pos - 1])) # (pos <= Len(text) /\ is_word_char(text[pos]))

\* pattern.search(text) for r'\b(kw1|kw2|...)\b'
skill_pattern_search(keywords, text) ==
  \E n \in 1..Len(keywords) : \E i \in 1..Len(text) :
     /\ starts_at(text, keywords[n], i)
     /\ word_boundary(text, i)
     /\ word_boundary(text, i + Len(keywords[n]))

\* f"{title} {description or ''}".lower()
title_and_description(title, description) ==
  lower(title \o <<" ">> \o (IF truthy(description) THEN description ELSE <<>>))

\* the categories found; the code returns list(set(...)), whose order is
\* not used anywhere
_extract_skills(title, description) ==
  LET text == title_and_description(title, description) IN
  {SKILL_KEYWORDS[c].category : c \in
     {c \in 1..Len(SKILL_KEYWORDS) : skill_pattern_search(SKILL_KEYWORDS[c].keywords, text)}}

RECURSIVE seniority_from(_, _)
seniority_from(text, l) ==
  IF l > Len(SENIORITY_INDICATORS) THEN NONE
  ELSE IF \E n \in 1..Len(SENIORITY_INDICATORS[l].indicators) :
            contains(text, lower(SENIORITY_INDICATORS[l].indicators[n]))
       THEN SENIORITY_INDICATORS[l].level
       ELSE seniority_from(text, l + 1)

_determine_seniority(title, description) ==
  seniority_from(title_and_description(title, description), 1)

\* the None that normalize_job returns in place of a Job
NO_JOB == [no_job |-> TRUE]

\* normalize_job when nothing raises: the Job, or None when a required
\* field is missing
normalize_dict(raw_job, source) ==
  LET source_job_id == str(py_get(raw_job, "id", py_get(raw_job, "job_id", <<>>)))
      title         == _extract_title(raw_job)
      company       == _extract_company(raw_job)
      location      == _extract_location(raw_job)
      description   == _extract_description(raw_job)
      apply_url     == _extract_apply_url(raw_job)
  IN  IF ~ (truthy(source_job_id) /\ truthy(title) /\ truthy(company) /\ truthy(apply_url))
      THEN NO_JOB
      ELSE [source        |-> source,
            source_job_id |-> source_job_id,
            title         |-> title,
            company       |-> company,
            location      |-> location,
            description   |-> description,
            apply_url     |-> apply_url,
            skills        |-> _extract_skills(title, description),
            seniority     |-> _determine_seniority(title, description)]

\* JobNormalizer.normalize_job: an exception of the body is caught and
\* gives None
normalize_job(raw_job, source) ==
  IF is_dict(raw_job) THEN normalize_dict(raw_job, source) ELSE NO_JOB

\* the default of is_duplicate_job's threshold parameter, in hundredths
threshold == 80

\* the bound on company_similarity and location_similarity, in hundredths
side_threshold == 70

\* is_duplicate_job with the title compared by >= in place of >
is_duplicate_job_at_threshold(job1, job2) ==
  IF /\ lower(job1.company) = lower(job2.company)
     /\ lower(job1.title) = lower(job2.title)
     /\ lower(job1.location) = lower(job2.location)
  THEN TRUE
  ELSE IF token_sort_ratio(lower(job1.title), lower(job2.title)) >= threshold
       THEN /\ ratio(lower(job1.company), lower(job2.company)) > side_threshold
            /\ ratio(lower(job1.location), lower(job2.location)) > side_threshold
       ELSE FALSE

\* is_duplicate_job(job1, job2).  fuzz returns whole percents and the code
\* compares percent / 100.0 with 0.8 and 0.7; 80 / 100.0 and 70 / 100.0 are
\* the floats 0.8 and 0.7, so the comparisons are those of the percents.
is_duplicate_job(job1, job2) ==
  IF /\ lower(job1.company) = lower(job2.company)
     /\ lower(job1.title) = lower(job2.title)
     /\ lower(job1.location) = lower(job2.location)
  THEN TRUE
  ELSE IF token_sort_ratio(lower(job1.title), lower(job2.title)) > threshold
       THEN /\ ratio(lower(job1.company), lower(job2.company)) > side_threshold
            /\ ratio(lower(job1.location), lower(job2.location)) > side_threshold
       ELSE FALSE

--------------------------------------------------------------------------
(* job_processor.py: the filters                                           *)

\* filters.get(key, [])
filter_list(filters, key) == py_get(filters, key, <<>>)

_passes_location_filter(filters, location) ==
  LET allowed_locations == filter_list(filters, "allowed_locations") IN
  IF allowed_locations = <<>> THEN TRUE
  ELSE \E n \in 1..Len(allowed_locations) :
          contains(lower(location), lower(allowed_locations[n]))

_passes_skills_filter(filters, skills) ==
  LET required_skills == filter_list(filters, "required_skills") IN
  IF required_skills = <<>> THEN TRUE
  ELSE IF skills = {} THEN FALSE
  ELSE \E n \in 1..Len(required_skills) :
          lower(required_skills[n]) \in {lower(skill) : skill \in skills}

\* the loop `for pattern in patterns: match = re.search(...); if match:
\* return years <= 2`: "accept", "reject", or "none" when no pattern matches
RECURSIVE years_decision(_, _, _)
years_decision(patterns, text, p) ==
  IF p > Len(patterns) THEN "none"
  ELSE LET years == re_search(patterns[p], text) IN
       IF years = -1 THEN years_decision(patterns, text, p + 1)
       ELSE IF years <= max_years THEN "accept" ELSE "reject"

_passes_seniority_filter(filters, seniority) ==
  LET excluded_seniority  == filter_list(filters, "excluded_seniority")
      preferred_seniority == filter_list(filters, "preferred_seniority")
      seniority_lower     == lower(seniority)
  IN  IF ~ truthy(seniority) THEN TRUE
      ELSE IF \E n \in 1..Len(excluded_seniority) :
                 contains(seniority_lower, lower(excluded_seniority[n]))
           THEN FALSE
      ELSE IF \E n \in 1..Len(preferred_seniority) :
                 contains(seniority_lower, lower(preferred_seniority[n]))
           THEN TRUE
      ELSE years_decision(experience_patterns, seniority_lower, 1) = "accept"

_passes_job_title_filter(title) ==
  LET title_lower == lower(title) IN
  IF ~ truthy(title) THEN FALSE
  ELSE IF \E n \in 1..Len(entry_level_indicators) :
             contains(title_lower, entry_level_indicators[n])
       THEN TRUE
  ELSE years_decision(experience_patterns, title_lower, 1) # "reject"

\* the second loop of _passes_experience_filter: a match with more than
\* two years rejects, any other match goes on to the next pattern
senior_pattern_rejects(text) ==
  \E p \in 1..Len(senior_patterns) : re_search(senior_patterns[p], text) > max_years

\* description.lower() + " " + seniority.lower(), each part when truthy
text_to_analyze(description, seniority) ==
  (IF truthy(description) THEN lower(description) ELSE <<>>)
  \o (IF truthy(seniority) THEN <<" ">> \o lower(seniority) ELSE <<>>)

_passes_experience_filter(description, seniority) ==
  LET text     == text_to_analyze(description, seniority)
      decision == years_decision(entry_level_patterns, text, 1)
  IN  IF text = <<>> THEN TRUE
      ELSE IF decision = "accept" THEN TRUE
      ELSE IF decision = "reject" THEN FALSE
      ELSE IF senior_pattern_rejects(text) THEN FALSE
      ELSE IF \E n \in 1..Len(entry_level_keywords) : contains(text, entry_level_keywords[n])
           THEN TRUE
      ELSE IF \E n \in 1..Len(senior_keywords) : contains(text, senior_keywords[n])
           THEN FALSE
      ELSE TRUE

_passes_filters(filters, job) ==
  /\ _passes_location_filter(filters, job.location)
  /\ _passes_skills_filter(filters, job.skills)
  /\ _passes_seniority_filter(filters, job.seniority)
  /\ _passes_job_title_filter(job.title)
  /\ _passes_experience_filter(job.description, job.seniority)

--------------------------------------------------------------------------
(* The inputs of the model                                                 *)

\* job_filters of config.yaml, with every rule set
job_filters ==
    [allowed_locations   |-> << <<"p","u","n","e">>, <<"g","o","a">> >>,
     required_skills     |-> << <<"P","y","t","h","o","n">>, <<"w","e","b","_","d","e","v","e","l","o","p","m","e","n","t">> >>,
     excluded_seniority  |-> << <<"s","e","n","i","o","r">>, <<"e","x","p","e","r","t">> >>,
     preferred_seniority |-> << <<"f","r","e","s","h","e","r">>, <<"j","u","n","i","o","r">> >>]

\* the configurations of the model: job_filters, and a configuration with
\* no job_filters section
FilterConfigs == {job_filters, [x \in {} |-> <<>>]}

\* raw jobs as the aggregators return them
RawAcme ==
  [job_id |-> <<"1">>, job_title |-> <<"M","L"," ","D","e","v">>, employer |-> <<"A","c","m","e">>, city |-> <<"P","u","n","e">>,
   description |-> <<"p","y","t","h","o","n"," ","f","r","e","s","h","e","r">>, apply_link |-> <<"u","1">>]

RawAcmeSenior ==
  [id |-> <<"2">>, title |-> <<"M","L"," ","D","e","v">>, company |-> <<"A","c","m","e">>, location |-> <<"P","u","n","e">>,
   description |-> <<"5"," ","y","e","a","r","s"," ","e","x","p","e","r","i","e","n","c","e">>, url |-> <<"u","2">>]

RawAcmeAgain ==
  [id |-> <<"7">>, title |-> <<"m","l"," ","d","e","v","s">>, company |-> <<"A","C","M","E">>, location |-> <<"p","u","n","e">>,
   summary |-> <<"p","y","t","h","o","n"," ","j","u","n","i","o","r">>, link |-> <<"u","7">>]

RawBolt ==
  [id |-> <<"8">>, title |-> <<"W","e","b"," ","I","n","t","e","r","n">>, company |-> <<"B","o","l","t">>, location |-> <<"G","o","a">>,
   description |-> <<"r","e","a","c","t">>, link |-> <<"u","8">>]

RawNoCompany == [id |-> <<"9">>, title |-> <<"Q","A">>, link |-> <<"u","9">>]

\* what fetch_all_jobs may return: a list per source
FetchResults ==
  { << [source |-> "rapidapi", jobs |-> r], [source |-> "jooble", jobs |-> j] >> :
      r \in {<<>>, <<RawAcme>>, <<RawAcmeSenior, RawAcme>>},
      j \in {<<>>, <<RawAcmeAgain>>, <<RawNoCompany, RawBolt>>} }

\* the raw jobs of the model with the source that returns them
FetchedRaw ==
  UNION { UNION { {[source |-> f[s].source, raw |-> f[s].jobs[i]] : i \in 1..Len(f[s].jobs)}
                  : s \in 1..Len(f) }
          : f \in FetchResults }

\* normalize_job, is_duplicate_job and _passes_filters are functions of
\* their arguments alone; their values on the jobs of the model are
\* computed once and looked up from then on
NormalizeTable ==
  {[source |-> e.source, raw |-> e.raw, job |-> normalize_job(e.raw, e.source)] :
     e \in FetchedRaw}

KnownJobs == {e.job : e \in NormalizeTable} \ {NO_JOB}

DuplicateTable == {p \in KnownJobs \X KnownJobs : is_duplicate_job(p[1], p[2])}

PassTable == {p \in FilterConfigs \X KnownJobs : _passes_filters(p[1], p[2])}

normalized(raw_job, source) ==
  IF [source |-> source, raw |-> raw_job] \in FetchedRaw
  THEN (CHOOSE e \in NormalizeTable : e.source = source /\ e.raw = raw_job).job
  ELSE normalize_job(raw_job, source)

duplicates(job1, job2) ==
  IF job1 \in KnownJobs /\ job2 \in KnownJobs
  THEN <<job1, job2>> \in DuplicateTable
  ELSE is_duplicate_job(job1, job2)

passes(filters, job) ==
  IF filters \in FilterConfigs /\ job \in KnownJobs
  THEN <<filters, job>> \in PassTable
  ELSE _passes_filters(filters, job)

--------------------------------------------------------------------------
(* job_processor.py: the pipeline over the document store                  *)

\* process_raw_jobs: raw_jobs is the dict of fetch_all_jobs, given as its
\* items in order, each [source, jobs]; a raw job whose normalization gives
\* None is skipped
RECURSIVE process_raw_jobs(_)
process_raw_jobs(raw_jobs) ==
  IF raw_jobs = <<>> THEN <<>>
  ELSE LET source     == Head(raw_jobs).source
           jobs       == Head(raw_jobs).jobs
           jobs_or_none == [i \in 1..Len(jobs) |-> normalized(jobs[i], source)]
       IN  SelectSeq(jobs_or_none, LAMBDA job : job # NO_JOB)
           \o process_raw_jobs(Tail(raw_jobs))

\* filter_jobs with no rule applied
filter_jobs_keeping_all(filters, jobs) == jobs

filter_jobs(filters, jobs) == SelectSeq(jobs, LAMBDA job : passes(filters, job))

\* the loop of deduplicate_jobs with a job compared with the last unique
\* job only
RECURSIVE dedup_loop_against_last(_, _, _)
dedup_loop_against_last(jobs, k, unique_jobs) ==
  IF k > Len(jobs) THEN unique_jobs
  ELSE IF duplicates(jobs[k], unique_jobs[Len(unique_jobs)])
       THEN dedup_loop_against_last(jobs, k + 1, unique_jobs)
       ELSE dedup_loop_against_last(jobs, k + 1, Append(unique_jobs, jobs[k]))

\* the loop of deduplicate_jobs over jobs[k..], unique_jobs so far
RECURSIVE dedup_loop(_, _, _)
dedup_loop(jobs, k, unique_jobs) ==
  IF k > Len(jobs) THEN unique_jobs
  ELSE IF \E e \in 1..Len(unique_jobs) : duplicates(jobs[k], unique_jobs[e])
       THEN dedup_loop(jobs, k + 1, unique_jobs)
       ELSE dedup_loop(jobs, k + 1, Append(unique_jobs, jobs[k]))

deduplicate_jobs(jobs) == IF jobs = <<>> THEN <<>> ELSE dedup_loop(jobs, 2, <<jobs[1]>>)

\* the names handed to get_collection
Collections ==
  {"jobs_raw", "jobs_clean", "posts_ready", "posted_items",
   "raw_jobs", "clean_jobs", "cleanup_logs"}

\* col.find({}).limit(2000) of get_existing_jobs
existing_limit == 2000

\* the document store_clean_jobs inserts for a job, with the ObjectId the
\* driver gives it
clean_doc(job, oid) ==
  [_id           |-> oid,
   source        |-> job.source,
   source_job_id |-> job.source_job_id,
   title         |-> job.title,
   company       |-> job.company,
   location      |-> job.location,
   description   |-> job.description,
   apply_url     |-> job.apply_url,
   skills        |-> job.skills,
   seniority     |-> job.seniority]

\* the Job get_existing_jobs builds from a document
job_of_doc(doc) ==
  [source        |-> doc.source,
   source_job_id |-> doc.source_job_id,
   title         |-> doc.title,
   company       |-> doc.company,
   location      |-> doc.location,
   description   |-> doc.description,
   apply_url     |-> doc.apply_url,
   skills        |-> doc.skills,
   seniority     |-> doc.seniority]

get_existing_jobs(d) ==
  LET docs == prefix(d["jobs_clean"], existing_limit) IN
  [i \in 1..Len(docs) |-> job_of_doc(docs[i])]

\* store_raw_jobs: one document per raw job; the payload is never read
\* back by the program and is left out of the document
RECURSIVE raw_docs(_)
raw_docs(raw_jobs) ==
  IF raw_jobs = <<>> THEN <<>>
  ELSE [i \in 1..Len(Head(raw_jobs).jobs) |-> [source |-> Head(raw_jobs).source]]
       \o raw_docs(Tail(raw_jobs))

store_raw_jobs(d, raw_jobs) == [d EXCEPT !["jobs_raw"] = @ \o raw_docs(raw_jobs)]

\* store_clean_jobs: insert_one per job; oid is the first fresh ObjectId
store_clean_jobs(d, jobs, oid) ==
  [d EXCEPT !["jobs_clean"] = @ \o [i \in 1..Len(jobs) |-> clean_doc(jobs[i], oid + i - 1)]]

\* process_job_pipeline: the store after the run and the ids it returns
process_job_pipeline(d, oid, filters, raw_jobs) ==
  LET d1              == store_raw_jobs(d, raw_jobs)
      normalized_jobs == process_raw_jobs(raw_jobs)
      existing_jobs   == get_existing_jobs(d1)
      all_jobs        == existing_jobs \o normalized_jobs
      unique_jobs     == deduplicate_jobs(all_jobs)
      filtered_jobs   == filter_jobs(filters, unique_jobs)
  IN  [db         |-> store_clean_jobs(d1, filtered_jobs, oid),
       stored_ids |-> [i \in 1..Len(filtered_jobs) |-> oid + i - 1]]

\* sum(len(jobs) for jobs in raw_jobs.values())
RECURSIVE total_jobs(_)
total_jobs(raw_jobs) ==
  IF raw_jobs = <<>> THEN 0 ELSE Len(Head(raw_jobs).jobs) + total_jobs(Tail(raw_jobs))

\* the number of pipeline runs a behaviour makes
MaxRuns == 2

--------------------------------------------------------------------------
(* The state                                                               *)

VARIABLES
  filters,    \* JobProcessor.filters, loaded from config.yaml at start
  db,         \* the document store: collection name -> its documents in order
  next_id,    \* the next fresh ObjectId
  runs,       \* pipeline runs made so far
  today,      \* the current day (UTC)
  pc,         \* where each thread of the orchestrator is
  local,      \* the locals of each thread's post_pending_content call
  published,  \* history: what the poster has published
  last,       \* history: the last operation and what it did
  arg,        \* the input of the function under study
  result      \* its result, once applied

vars == <<filters, db, next_id, runs, today, pc, local, published, last, arg, result>>

EmptyStore == [c \in Collections |-> <<>>]

NoResult == [done |-> FALSE]

Result(v) == [done |-> TRUE, value |-> v]

NoOp == [op |-> "none", raw_jobs |-> <<>>, inserted |-> <<>>, repeat |-> FALSE]

\* the threads that run the orchestrator's operations: the main thread and
\* a worker of the BackgroundScheduler
Threads == {"main", "worker"}

NoLocals == [platform |-> "", today_posts |-> 0, posts_to_process |-> <<>>, i |-> 0]

\* the state after construction: an empty store
StoreInit ==
  /\ filters \in FilterConfigs
  /\ db = EmptyStore
  /\ next_id = 1
  /\ runs = 0
  /\ today = 1
  /\ pc = [t \in Threads |-> "idle"]
  /\ local = [t \in Threads |-> NoLocals]
  /\ published = {}
  /\ last = NoOp

--------------------------------------------------------------------------
(* Runs of process_job_pipeline alone                                      *)

ProcessJobPipeline(raw_jobs) ==
  /\ runs < MaxRuns
  /\ \E r \in {process_job_pipeline(db, next_id, filters, raw_jobs)} :
     /\ db' = r.db
     /\ next_id' = next_id + Len(r.stored_ids)
     /\ last' = [op       |-> "pipeline",
                 raw_jobs |-> raw_jobs,
                 inserted |-> SubSeq(r.db["jobs_clean"], Len(db["jobs_clean"]) + 1,
                                     Len(r.db["jobs_clean"])),
                 repeat   |-> last.op = "pipeline" /\ last.raw_jobs = raw_jobs]
  /\ runs' = runs + 1
  /\ UNCHANGED <<filters, today, pc, local, published, arg, result>>

PipelineInit == StoreInit /\ arg = <<>> /\ result = NoResult

PipelineNext == \E raw_jobs \in FetchResults : ProcessJobPipeline(raw_jobs)

SpecPipeline == PipelineInit /\ [][PipelineNext]_vars

--------------------------------------------------------------------------
(* is_duplicate_job on pairs of jobs                                       *)

DupTitles == { <<"M","L"," ","D","e","v">>, <<"m","l"," ","d","e","v">>, <<"D","e","v"," ","M","L">>, <<"M","L"," ","D","e","v","s">>, <<"Q","A">>, <<"Q","A","s">> }

DupCompanies == { <<"A","c","m","e">>, <<"A","C","M","E">>, <<"A","c","m","e","s">>, <<"A","c">>, <<"B","o","l","t">> }

DupLocations == { <<"P","u","n","e">>, <<"p","u","n","e">>, <<"P","u","n","a">>, <<"P","u">>, <<"G","o","a">>, <<>> }

\* the fields of a Job that is_duplicate_job reads
DupJobs(titles, companies, locations) ==
  [title : titles, company : companies, location : locations]

DupInit ==
  /\ StoreInit
  /\ arg \in DupJobs({ <<"M","L"," ","D","e","v">>, <<"Q","A">> }, { <<"A","c","m","e">> }, { <<"P","u","n","e">>, <<>> })
             \X DupJobs(DupTitles, DupCompanies, DupLocations)
  /\ result = NoResult

ApplyIsDuplicateJob ==
  /\ ~ result.done
  /\ result' = Result(is_duplicate_job(arg[1], arg[2]))
  /\ UNCHANGED <<filters, db, next_id, runs, today, pc, local, published, last, arg>>

SpecDup == DupInit /\ [][ApplyIsDuplicateJob]_vars

\* the three similarities, in hundredths
title_similarity(a, b) == token_sort_ratio(lower(a.title), lower(b.title))

company_similarity(a, b) == ratio(lower(a.company), lower(b.company))

location_similarity(a, b) == ratio(lower(a.location), lower(b.location))

exact_match(a, b) ==
  /\ lower(a.company) = lower(b.company)
  /\ lower(a.title) = lower(b.title)
  /\ lower(a.location) = lower(b.location)

\* C7: is_duplicate_job(a, b) holds exactly when company, title and
\* location are equal ignoring case, or the title similarity exceeds 0.8
\* and the company and the location similarity both exceed 0.7; jobs that
\* are no exact match and whose company or location similarity is at most
\* 0.7 are never duplicates
C7_DuplicateExactlyWhenSimilar ==
  result.done =>
    LET a == arg[1]
        b == arg[2]
    IN  /\ result.value <=>
             \/ exact_match(a, b)
             \/ /\ title_similarity(a, b) > 80
                /\ company_similarity(a, b) > 70
                /\ location_similarity(a, b) > 70
        /\ (/\ ~ exact_match(a, b)
            /\ (company_similarity(a, b) <= 70 \/ location_similarity(a, b) <= 70))
           => ~ result.value

\* a pair that is a duplicate by similarity alone
C7_FuzzyDuplicateFound ==
  /\ result.done
  /\ result.value
  /\ ~ exact_match(arg[1], arg[2])

--------------------------------------------------------------------------
(* filter_jobs on jobs whose descriptions state years of experience        *)

\* the sentences a description is made of
Fragments ==
  { <<"1"," ","y","e","a","r"," ","e","x","p","e","r","i","e","n","c","e">>, <<"2"," ","y","e","a","r","s"," ","o","f"," ","e","x","p","e","r","i","e","n","c","e">>, <<"3"," ","y","e","a","r","s"," ","e","x","p","e","r","i","e","n","c","e">>,
    <<"5"," ","y","e","a","r","s"," ","o","f"," ","e","x","p","e","r","i","e","n","c","e">>, <<"1"," ","t","o"," ","5"," ","y","e","a","r","s"," ","e","x","p","e","r","i","e","n","c","e">>, <<"P","y","t","h","o","n"," ","f","r","e","s","h","e","r">>,
    <<"1","0","+"," ","y","e","a","r","s"," ","o","f"," ","e","x","p","e","r","i","e","n","c","e">> }

\* the number of sentences in a description
MaxFragments == 2

RECURSIVE Descriptions(_)
Descriptions(n) ==
  IF n = 0 THEN {<<>>}
  ELSE Descriptions(n - 1)
       \cup {IF d = <<>> THEN f ELSE d \o <<"."," ">> \o f : d \in Descriptions(n - 1) \ {<<>>}, f \in Fragments}
       \cup Fragments

ExpInit ==
  /\ StoreInit
  /\ arg \in {[id |-> <<"1">>, title |-> <<"P","y","t","h","o","n"," ","D","e","v">>, company |-> <<"A","c","m","e">>,
               location |-> <<"P","u","n","e">>, description |-> d, url |-> <<"u","1">>] :
                 d \in Descriptions(MaxFragments)}
  /\ result = NoResult

\* the job as the normalizer builds it, put through filter_jobs
ApplyFilterJobs ==
  /\ ~ result.done
  /\ \E job \in {normalize_job(arg, "rapidapi")} :
       result' = Result([job |-> job, filtered_jobs |-> filter_jobs(filters, <<job>>)])
  /\ UNCHANGED <<filters, db, next_id, runs, today, pc, local, published, last, arg>>

SpecExp == ExpInit /\ [][ApplyFilterJobs]_vars

\* the years a description may ask for
YearsAsked == 0..12

RECURSIVE digits_of(_)
digits_of(n) == IF n < 10 THEN <<DIGITS[n + 1]>> ELSE digits_of(n \div 10) \o <<DIGITS[(n % 10) + 1]>>

\* description holds '<n> years experience' or '<n> years of experience',
\* the number not being the tail of a longer one
asks_for_years(description, n) ==
  \E phrase \in {digits_of(n) \o <<" ","y","e","a","r","s"," ","e","x","p","e","r","i","e","n","c","e">>,
                 digits_of(n) \o <<" ","y","e","a","r","s"," ","o","f"," ","e","x","p","e","r","i","e","n","c","e">>} :
    \E i \in 1..Len(description) :
       /\ starts_at(description, phrase, i)
       /\ (i = 1 \/ ~ is_digit(description[i - 1]))

\* C5: filter_jobs rejects every job whose description holds a phrase
\* '<N> years experience' or '<N> years of experience' with N above 2
C5_RejectsAboveTwoYears ==
  (/\ result.done
   /\ \E n \in YearsAsked : n > 2 /\ asks_for_years(lower(result.value.job.description), n))
  => result.value.filtered_jobs = <<>>

\* a job asking for more than two years was put through the filter and
\* rejected
C5_AboveTwoYearsRejected ==
  /\ result.done
  /\ \E n \in YearsAsked : n > 2 /\ asks_for_years(lower(result.value.job.description), n)
  /\ result.value.filtered_jobs = <<>>

--------------------------------------------------------------------------
(* process_raw_jobs on batches with incomplete raw jobs                    *)

\* the keys of the four required fields, and what an API may send for them
RequiredKeys == {"id", "title", "company", "url"}

RawValues == { NONE, <<>>, <<" "," ">>, <<"x","1">> }

\* raw jobs with any of the keys missing, and something that is no dict
IncompleteRaws ==
  UNION {[keys -> RawValues] : keys \in SUBSET RequiredKeys} \cup {NOT_A_DICT}

NormInit ==
  /\ StoreInit
  /\ arg \in {<< [source |-> "rapidapi", jobs |-> <<raw, RawAcme>>] >> : raw \in IncompleteRaws}
  /\ result = NoResult

ApplyProcessRawJobs ==
  /\ ~ result.done
  /\ result' = Result(process_raw_jobs(arg))
  /\ UNCHANGED <<filters, db, next_id, runs, today, pc, local, published, last, arg>>

SpecNorm == NormInit /\ [][ApplyProcessRawJobs]_vars

\* the raw job has no value for the key: no such key, null, or blank
lacks(raw_job, key) ==
  \/ ~ is_dict(raw_job)
  \/ key \notin DOMAIN raw_job
  \/ raw_job[key] = NONE
  \/ strip(raw_job[key]) = <<>>

first_raw == arg[1].jobs[1]

\* C8: every Job of process_raw_jobs has a non-empty source_job_id, title,
\* company and apply_url; a raw job lacking any of the four, or whose
\* normalization raises, is skipped, and the rest of the batch is kept
C8_IncompleteRawJobsSkipped ==
  result.done =>
    /\ \A n \in 1..Len(result.value) :
         /\ result.value[n].source_job_id # <<>>
         /\ result.value[n].title # <<>>
         /\ result.value[n].company # <<>>
         /\ result.value[n].apply_url # <<>>
    /\ (\E key \in RequiredKeys : lacks(first_raw, key))
         => result.value = <<normalize_job(RawAcme, "rapidapi")>>
    /\ \E n \in 1..Len(result.value) : result.value[n] = normalize_job(RawAcme, "rapidapi")

\* a raw job without a title was skipped and the job after it kept
C8_IncompleteSkipped ==
  /\ result.done
  /\ lacks(first_raw, "title")
  /\ result.value = <<normalize_job(RawAcme, "rapidapi")>>

--------------------------------------------------------------------------
(* Properties of process_job_pipeline                                      *)

clean_jobs_stored == [i \in 1..Len(db["jobs_clean"]) |-> job_of_doc(db["jobs_clean"][i])]

\* C1: a run of process_job_pipeline on the raw jobs of the run before it
\* inserts no record into jobs_clean
C1_RepeatedRunInsertsNothing == last.repeat => last.inserted = <<>>

\* the second of two runs on the same raw jobs, which hold a job that is
\* stored
C1_RepeatedRunOfStoredJobs ==
  /\ last.repeat
  /\ db["jobs_clean"] # <<>>

\* C2: jobs_clean never holds two records that is_duplicate_job deems
\* duplicates of each other
C2_NoDuplicatesInCleanJobs ==
  \A i, j \in 1..Len(clean_jobs_stored) :
     i < j => ~ is_duplicate_job(clean_jobs_stored[i], clean_jobs_stored[j])

\* a run that found a duplicate among its jobs and stored the other
C2_DuplicateDropped ==
  /\ last.op = "pipeline"
  /\ last.inserted # <<>>
  /\ LET jobs == process_raw_jobs(last.raw_jobs) IN
     \E i, j \in 1..Len(jobs) : i < j /\ is_duplicate_job(jobs[i], jobs[j])

\* C6: every record process_job_pipeline inserts into jobs_clean satisfies
\* _passes_filters under the configuration of the run
C6_InsertedJobsPassFilters ==
  \A i \in 1..Len(last.inserted) : _passes_filters(filters, job_of_doc(last.inserted[i]))

\* a run that stored a job and turned another down
C6_SomeStoredSomeRejected ==
  /\ last.op = "pipeline"
  /\ last.inserted # <<>>
  /\ LET jobs == process_raw_jobs(last.raw_jobs) IN
     \E i \in 1..Len(jobs) : ~ _passes_filters(filters, jobs[i])

--------------------------------------------------------------------------
(* orchestrator.py: the operations of JobAutomationOrchestrator, run by    *)
(* the threads of the process over the one document store.  A call of      *)
(* post_pending_content is two kinds of step, its reads up to the slice    *)
(* of the pending posts and then one step per post of the loop, which      *)
(* sleeps 30 to 90 seconds after every post; the other operations are one  *)
(* step each.                                                              *)

\* the `posting` section of config.yaml
posting_config ==
  [platforms |-> <<"linkedin">>, max_posts_per_day |-> [linkedin |-> 2]]

\* the default of .get(platform or 'linkedin', 4)
default_max_posts == 4

\* platform=None, the default argument of post_pending_content
NO_PLATFORM == "None"

\* the bounds of the model: days, monthly cleanups, documents of
\* posts_ready at which manual caption generation is still run
MaxDay == 2

MaxCleanups == 1

MaxPosts == 2

Outcomes == {"posted", "failed", "raise"}

ids_of(docs) == {docs[i]._id : i \in 1..Len(docs)}

\* collection.find_one({'_id': oid}) is not None
found(docs, oid) == oid \in ids_of(docs)

find_one(docs, oid) == docs[least({i \in 1..Len(docs) : docs[i]._id = oid})]

\* collection.update_one({'_id': oid}, {'$set': {'status': status}})
update_one(docs, oid, status) ==
  [i \in 1..Len(docs) |->
     IF docs[i]._id = oid THEN [docs[i] EXCEPT !.status = status] ELSE docs[i]]

\* _generate_captions_for_jobs from job_ids[k] on: a pending post per job
\* found and platform whose caption validate_caption accepts; valid is
\* the set of job ids with such a caption
RECURSIVE _generate_captions_for_jobs(_, _, _, _, _)
_generate_captions_for_jobs(d, oid, job_ids, k, valid) ==
  IF k > Len(job_ids) THEN [db |-> d, next_id |-> oid]
  ELSE IF found(d["jobs_clean"], job_ids[k]) /\ job_ids[k] \in valid
       THEN _generate_captions_for_jobs(
              [d EXCEPT !["posts_ready"] =
                 @ \o [p \in 1..Len(posting_config.platforms) |->
                         [_id      |-> oid + p - 1,
                          job_id   |-> job_ids[k],
                          platform |-> posting_config.platforms[p],
                          status   |-> "pending"]]],
              oid + Len(posting_config.platforms), job_ids, k + 1, valid)
       ELSE _generate_captions_for_jobs(d, oid, job_ids, k + 1, valid)

\* fetch_and_process_jobs up to its call of post_pending_content
FetchAndProcessJobs(t, raw_jobs) ==
  /\ pc[t] = "idle"
  /\ runs < MaxRuns
  /\ runs' = runs + 1
  /\ IF total_jobs(raw_jobs) = 0
     THEN UNCHANGED <<db, next_id, pc>>
     ELSE \E r \in {process_job_pipeline(db, next_id, filters, raw_jobs)} :
          \E valid \in SUBSET Range(r.stored_ids) :
          \E g \in {_generate_captions_for_jobs(r.db, next_id + Len(r.stored_ids),
                                                r.stored_ids, 1, valid)} :
            /\ db' = g.db
            /\ next_id' = g.next_id
            /\ pc' = [pc EXCEPT ![t] = IF r.stored_ids # <<>> THEN "call_post" ELSE "idle"]
  /\ UNCHANGED <<filters, today, local, published, last, arg, result>>

\* posts_collection.find(filter_query)
pending_posts(d, platform) ==
  SelectSeq(d["posts_ready"],
            LAMBDA post : /\ post.status = "pending"
                          /\ (platform = NO_PLATFORM \/ post.platform = platform))

max_posts(platform) ==
  py_get(posting_config.max_posts_per_day,
         IF platform = NO_PLATFORM THEN "linkedin" ELSE platform, default_max_posts)

_get_today_post_count(d, day, platform) ==
  Len(SelectSeq(d["posted_items"],
                LAMBDA item : /\ item.posted_at >= day
                              /\ (platform = NO_PLATFORM \/ item.platform = platform)))

\* the slice with the whole daily limit, whatever was posted today
posts_up_to_limit(pending, limit, today_posts) == prefix(pending, limit)

\* posts_to_process = pending_posts[:max_posts - today_posts]
select_posts_to_process(pending, limit, today_posts) == prefix(pending, limit - today_posts)

\* post_pending_content(platform) up to the loop: by the scheduler or by
\* hand on an idle thread, or called by fetch_and_process_jobs
PostPendingContent(t, platform) ==
  /\ \/ pc[t] = "idle"
     \/ pc[t] = "call_post" /\ platform = NO_PLATFORM
  /\ LET pending     == pending_posts(db, platform)
         today_posts == _get_today_post_count(db, today, platform)
     IN  IF pending = <<>> \/ today_posts >= max_posts(platform)
         THEN /\ pc' = [pc EXCEPT ![t] = "idle"]
              /\ local' = [local EXCEPT ![t] = NoLocals]
         ELSE /\ pc' = [pc EXCEPT ![t] = "posting"]
              /\ local' = [local EXCEPT ![t] =
                   [platform         |-> platform,
                    today_posts      |-> today_posts,
                    posts_to_process |-> select_posts_to_process(pending, max_posts(platform),
                                                                 today_posts),
                    i                |-> 1]]
  /\ UNCHANGED <<filters, db, next_id, runs, today, published, last, arg, result>>

\* the thread after the post at hand: the next post, or the end of the call
next_post(t) ==
  IF local[t].i < Len(local[t].posts_to_process)
  THEN /\ pc' = pc
       /\ local' = [local EXCEPT ![t].i = @ + 1]
  ELSE /\ pc' = [pc EXCEPT ![t] = "idle"]
       /\ local' = [local EXCEPT ![t] = NoLocals]

\* the record of a publication: the posting by its source and id there,
\* the platform, the post, and how many times the poster has published
\* this posting to this platform so far
publication(job, post, so_far) ==
  [source        |-> job.source,
   source_job_id |-> job.source_job_id,
   platform      |-> post.platform,
   post          |-> post._id,
   nth           |-> 1 + Cardinality({e \in so_far : /\ e.source = job.source
                                                      /\ e.source_job_id = job.source_job_id
                                                      /\ e.platform = post.platform})]

\* one round of the loop of post_pending_content.  outcome is what the
\* world does: the poster publishes, the poster fails, or an operation of
\* the round raises before anything is published
PostOne(t, outcome) ==
  /\ pc[t] = "posting"
  /\ LET post == local[t].posts_to_process[local[t].i] IN
     IF outcome = "raise"
     THEN \* control goes to the handler of the round
          /\ pc' = [pc EXCEPT ![t] = "except"]
          /\ UNCHANGED <<db, next_id, local, published>>
     ELSE IF ~ found(db["jobs_clean"], post.job_id)
     THEN /\ next_post(t)
          /\ UNCHANGED <<db, next_id, published>>
     ELSE IF outcome = "posted"
     THEN /\ published' = published \cup
                {publication(find_one(db["jobs_clean"], post.job_id), post, published)}
          /\ db' = [db EXCEPT
                      !["posts_ready"] = update_one(@, post._id, "posted"),
                      !["posted_items"] = Append(@, [job_id    |-> post.job_id,
                                                     platform  |-> post.platform,
                                                     posted_at |-> today])]
          /\ next_post(t)
          /\ UNCHANGED next_id
     ELSE /\ db' = [db EXCEPT !["posts_ready"] = update_one(@, post._id, "failed")]
          /\ next_post(t)
          /\ UNCHANGED <<next_id, published>>
  /\ UNCHANGED <<filters, runs, today, last, arg, result>>

\* the handler of a round, `except Exception as e`: its statement
\* post.status = 'failed' sets an attribute of a dict, which raises
\* AttributeError out of the loop to the handler of the call; nothing is
\* written and the call ends
ExceptHandler(t) ==
  /\ pc[t] = "except"
  /\ pc' = [pc EXCEPT ![t] = "idle"]
  /\ local' = [local EXCEPT ![t] = NoLocals]
  /\ UNCHANGED <<filters, db, next_id, runs, today, published, last, arg, result>>

\* the names monthly_cleanup hands to get_collection
cleanup_collections == <<"raw_jobs", "clean_jobs", "posts_ready", "posted_items">>

MonthlyCleanup(t) ==
  /\ pc[t] = "idle"
  /\ Len(db["cleanup_logs"]) < MaxCleanups
  /\ db' = [c \in Collections |->
              IF c \in Range(cleanup_collections) THEN <<>>
              ELSE IF c = "cleanup_logs"
              THEN Append(db[c], [action |-> "monthly_cleanup"])
              ELSE db[c]]
  /\ UNCHANGED <<filters, next_id, runs, today, pc, local, published, last, arg, result>>

\* the ids of the clean jobs that have no pending post, in order
job_ids_to_process(d) ==
  LET existing_post_job_ids ==
        {d["posts_ready"][i].job_id :
           i \in {i \in 1..Len(d["posts_ready"]) : d["posts_ready"][i].status = "pending"}}
      jobs == SelectSeq(d["jobs_clean"], LAMBDA job : job._id \notin existing_post_job_ids)
  IN  [i \in 1..Len(jobs) |-> jobs[i]._id]

RunManualCaptionGeneration(t) ==
  /\ pc[t] = "idle"
  /\ Len(db["posts_ready"]) < MaxPosts
  /\ job_ids_to_process(db) # <<>>
  /\ \E valid \in SUBSET Range(job_ids_to_process(db)) :
     \E g \in {_generate_captions_for_jobs(db, next_id, job_ids_to_process(db), 1, valid)} :
       /\ db' = g.db
       /\ next_id' = g.next_id
  /\ UNCHANGED <<filters, runs, today, pc, local, published, last, arg, result>>

\* midnight (UTC)
NextDay ==
  /\ today < MaxDay
  /\ today' = today + 1
  /\ UNCHANGED <<filters, db, next_id, runs, pc, local, published, last, arg, result>>

\* what the two fetchers bring in a fetch cycle of the system
CycleFetches ==
  { << [source |-> "rapidapi", jobs |-> r], [source |-> "jooble", jobs |-> <<>>] >> :
      r \in {<<>>, <<RawAcme>>} }

Init == StoreInit /\ filters = job_filters /\ arg = <<>> /\ result = NoResult

\* the operations of the orchestrator one after the other, as the CLI and
\* a scheduler whose jobs do not overlap run them
Next ==
  \/ \E raw_jobs \in CycleFetches : FetchAndProcessJobs("main", raw_jobs)
  \/ \E platform \in Range(posting_config.platforms) \cup {NO_PLATFORM} :
        PostPendingContent("main", platform)
  \/ \E outcome \in Outcomes : PostOne("main", outcome)
  \/ ExceptHandler("main")
  \/ MonthlyCleanup("main")
  \/ RunManualCaptionGeneration("main")
  \/ NextDay

Spec == Init /\ [][Next]_vars

\* start(): the scheduler is started and the main thread runs the first
\* fetch cycle, here up to its call of post_pending_content; from there on
\* the threads of the process post and generate captions side by side:
\* the main thread calls post_pending_content() as the fetch cycle and
\* manual posting do, a thread of the scheduler runs the posting job of a
\* platform, post_pending_content(platform=platform)
PostingInit ==
  /\ filters \in FilterConfigs
  /\ \E raw_jobs \in FetchResults :
     \E r \in {process_job_pipeline(EmptyStore, 1, filters, raw_jobs)} :
     \E valid \in SUBSET Range(r.stored_ids) :
     \E g \in {_generate_captions_for_jobs(r.db, 1 + Len(r.stored_ids),
                                           r.stored_ids, 1, valid)} :
       /\ r.stored_ids # <<>>
       /\ db = g.db
       /\ next_id = g.next_id
  /\ runs = 1
  /\ today = 1
  /\ pc = [t \in Threads |-> IF t = "main" THEN "call_post" ELSE "idle"]
  /\ local = [t \in Threads |-> NoLocals]
  /\ published = {}
  /\ last = NoOp
  /\ arg = <<>>
  /\ result = NoResult

PostingNext ==
  \/ PostPendingContent("main", NO_PLATFORM)
  \/ \E platform \in Range(posting_config.platforms) : PostPendingContent("worker", platform)
  \/ \E t \in Threads : \E outcome \in Outcomes : PostOne(t, outcome)
  \/ \E t \in Threads : ExceptHandler(t)
  \/ \E t \in Threads : RunManualCaptionGeneration(t)
  \/ NextDay

SpecPosting == PostingInit /\ [][PostingNext]_vars

--------------------------------------------------------------------------
(* Properties of the orchestrator                                          *)

PostStatuses == {"pending", "posted", "failed"}

post_status(d, oid) == find_one(d["posts_ready"], oid).status

\* C3: every posts_ready record has a status in {pending, posted, failed};
\* a record is created with status pending; a step changes the status of
\* a record only from pending to posted or from pending to failed; and
\* only a record whose status is pending is published
C3_PostStatusLifecycle ==
  [][ /\ \A i \in 1..Len(db'["posts_ready"]) :
           LET post == db'["posts_ready"][i] IN
           /\ post.status \in PostStatuses
           /\ IF found(db["posts_ready"], post._id)
              THEN post.status # post_status(db, post._id)
                     => /\ post_status(db, post._id) = "pending"
                        /\ post.status \in {"posted", "failed"}
              ELSE post.status = "pending"
      /\ \A e \in published' \ published : post_status(db, e.post) = "pending"
    ]_vars

\* a thread is about to publish a post that another call has already
\* marked posted
C3_PostedPostStillSelected ==
  \E t \in Threads :
    /\ pc[t] = "posting"
    /\ post_status(db, local[t].posts_to_process[local[t].i]._id) = "posted"

\* the posted_items records of a platform with posted_at on the day
posted_on(d, day, platform) ==
  SelectSeq(d["posted_items"],
            LAMBDA item : item.posted_at = day /\ item.platform = platform)

\* C4: the number of posted_items records of a platform with posted_at on
\* the current day never exceeds max_posts_per_day of the platform
C4_DailyLimitEnforced ==
  \A platform \in Range(posting_config.platforms) :
    Len(posted_on(db, today, platform)) <= max_posts(platform)

\* the limit of a platform is reached while a call is still posting to it
C4_LimitReachedWhilePosting ==
  \E platform \in Range(posting_config.platforms) :
    /\ Len(posted_on(db, today, platform)) = max_posts(platform)
    /\ \E t \in Threads :
         /\ pc[t] = "posting"
         /\ local[t].posts_to_process[local[t].i].platform = platform

\* the collections store_raw_jobs, store_clean_jobs,
\* _generate_captions_for_jobs and post_pending_content write to
written_collections == {"jobs_raw", "jobs_clean", "posts_ready", "posted_items"}

\* C9: when monthly_cleanup has completed (it has logged the cleanup), the
\* collections of the raw jobs, the clean jobs, the pending posts and the
\* posted items are all empty
C9_CleanupEmptiesCollections ==
  [][ Len(db'["cleanup_logs"]) > Len(db["cleanup_logs"])
        => \A c \in written_collections : db'[c] = <<>> ]_vars

\* the one fetch cycle stored a job and a post of it was published, then
\* the cleanup ran: the posts are gone, the clean jobs are still there
C9_CleanJobsOutliveCleanup ==
  /\ runs = 1
  /\ published # {}
  /\ db["cleanup_logs"] # <<>>
  /\ db["posts_ready"] = <<>>
  /\ db["jobs_clean"] # <<>>

\* C10: a job posting (same source and source_job_id) is published to a
\* platform at most once
C10_PublishedAtMostOnce == \A e \in published : e.nth = 1

\* a posting has been published once and a second fetch cycle has run
C10_PublishedThenFetchedAgain ==
  /\ runs = 2
  /\ \E e \in published : e.nth = 1

\* C11: each posts_ready record is published to its platform at most once
C11_PostPublishedAtMostOnce ==
  \A e1 \in published : \A e2 \in published :
    (e1.post = e2.post /\ e1.platform = e2.platform) => e1 = e2

\* two calls of post_pending_content are about to publish the same record
C11_TwoCallsHoldOnePost ==
  \E t1 \in Threads : \E t2 \in Threads \ {t1} :
    /\ pc[t1] = "posting"
    /\ pc[t2] = "posting"
    /\ local[t1].posts_to_process[local[t1].i]._id
         = local[t2].posts_to_process[local[t2].i]._id

--------------------------------------------------------------------------
(* deduplicate_jobs on lists of jobs                                       *)

\* jobs of one company and place: titles that are similar in a chain
\* (Dev and Devs, Devs and Devops, but not Dev and Devops), a title equal
\* to the first up to case, and another title
DedupJobs ==
  DupJobs({ <<"M","L"," ","D","e","v">>, <<"M","L"," ","D","e","v","s">>,
            <<"M","L"," ","D","e","v","o","p","s">>, <<"m","l"," ","d","e","v">>,
            <<"Q","A">> },
          { <<"A","c","m","e">> }, { <<"P","u","n","e">> })

\* the length of the lists
MaxJobs == 3

RECURSIVE Lists(_, _)
Lists(S, n) ==
  IF n = 0 THEN {<<>>}
  ELSE LET shorter == Lists(S, n - 1)
       IN  shorter \cup {Append(l, x) : l \in {l \in shorter : Len(l) = n - 1}, x \in S}

DedupInit ==
  /\ StoreInit
  /\ arg \in Lists(DedupJobs, MaxJobs)
  /\ result = NoResult

ApplyDeduplicateJobs ==
  /\ ~ result.done
  /\ result' = Result(deduplicate_jobs(arg))
  /\ UNCHANGED <<filters, db, next_id, runs, today, pc, local, published, last, arg>>

SpecDedup == DedupInit /\ [][ApplyDeduplicateJobs]_vars

\* the elements of seq at the positions K, in order
pick(seq, K) ==
  [n \in 1..Cardinality(K) |->
     seq[CHOOSE i \in K : Cardinality({j \in K : j <= i}) = n]]

\* C12: deduplicate_jobs returns the input jobs at a set of positions, in
\* order; the first position is among them; no job kept is a duplicate of
\* a job kept before it; every job left out is a duplicate of a job kept
\* that precedes it in the input
C12_DeduplicateKeepsFirstOfEachKind ==
  result.done =>
    \E K \in SUBSET (1..Len(arg)) :
      /\ result.value = pick(arg, K)
      /\ arg # <<>> => 1 \in K
      /\ \A i \in K : \A j \in K : j < i => ~ is_duplicate_job(arg[i], arg[j])
      /\ \A i \in (1..Len(arg)) \ K :
           \E j \in K : j < i /\ is_duplicate_job(arg[i], arg[j])

\* a chain of similar jobs: the second is a duplicate of the first and is
\* left out, the third is a duplicate of the second but not of the first
\* and is kept
C12_ChainOfSimilarJobs ==
  /\ result.done
  /\ Len(arg) = 3
  /\ result.value = <<arg[1], arg[3]>>
  /\ is_duplicate_job(arg[2], arg[1])
  /\ is_duplicate_job(arg[3], arg[2])
  /\ ~ is_duplicate_job(arg[3], arg[1])

--------------------------------------------------------------------------
(* process_job_pipeline: what becomes of the acceptable jobs of a batch    *)

\* the jobs of jobs_clean before the last run
clean_jobs_before ==
  SubSeq(clean_jobs_stored, 1, Len(clean_jobs_stored) - Len(last.inserted))

\* the job of a batch passes the filters and is no duplicate of a record
\* that was in jobs_clean before the run
acceptable(job) ==
  /\ _passes_filters(filters, job)
  /\ \A e \in 1..Len(clean_jobs_before) : ~ is_duplicate_job(job, clean_jobs_before[e])

\* the job is in jobs_clean, or is a duplicate of a record of jobs_clean
kept_or_covered(job) ==
  \E e \in 1..Len(clean_jobs_stored) :
     clean_jobs_stored[e] = job \/ is_duplicate_job(job, clean_jobs_stored[e])

\* C13: after process_job_pipeline has returned, every job of the batch
\* that passes the filters and is no duplicate of a record jobs_clean held
\* before is stored in jobs_clean or is a duplicate of a stored record
C13_AcceptableJobsNotLost ==
  last.op = "pipeline" =>
    LET jobs == process_raw_jobs(last.raw_jobs) IN
    \A i \in 1..Len(jobs) : acceptable(jobs[i]) => kept_or_covered(jobs[i])

\* a run whose batch held an acceptable job that was stored, and a job
\* that was turned down by the filters
C13_AcceptableJobStored ==
  /\ last.op = "pipeline"
  /\ LET jobs == process_raw_jobs(last.raw_jobs) IN
     /\ \E i \in 1..Len(jobs) :
          /\ acceptable(jobs[i])
          /\ \E e \in 1..Len(last.inserted) : job_of_doc(last.inserted[e]) = jobs[i]
     /\ \E i \in 1..Len(jobs) : ~ _passes_filters(filters, jobs[i])

--------------------------------------------------------------------------
(* post_pending_content: a round of the loop that raises                   *)

\* the post of the round thread t is in
post_at_hand(t) == local[t].posts_to_process[local[t].i]

\* C14: when the round of a selected post has raised, the handler marks
\* the post failed and the call goes on with the next selected post, if
\* there is one
C14_RaisedPostFailedCycleGoesOn ==
  [][ \A t \in Threads :
        (pc[t] = "except" /\ pc'[t] # "except")
          => /\ post_status(db', post_at_hand(t)._id) = "failed"
             /\ local[t].i < Len(local[t].posts_to_process)
                  => /\ pc'[t] = "posting"
                     /\ local'[t].i = local[t].i + 1
    ]_vars

\* the round of a post has raised while another selected post is waiting
C14_RaisedWithPostsLeft ==
  \E t \in Threads :
    /\ pc[t] = "except"
    /\ local[t].i < Len(local[t].posts_to_process)

--------------------------------------------------------------------------
(* post_pending_content: how many posts a call attempts                    *)

\* thread t is in the loop of a call
in_loop(t) == pc[t] \in {"posting", "except"}

\* C15: a call of post_pending_content attempts at most max_posts_per_day
\* minus today's count pending posts: the posts it selected are no more
\* than that and it attempts selected posts only, one after the other; it
\* attempts none when the count it read has reached the limit or when
\* there is no pending post
C15_CallAttemptsWithinQuota ==
  [][ \A t \in Threads :
        /\ (~ in_loop(t) /\ in_loop(t)')
             => /\ pending_posts(db, local'[t].platform) # <<>>
                /\ _get_today_post_count(db, today, local'[t].platform)
                     < max_posts(local'[t].platform)
                /\ local'[t].today_posts
                     = _get_today_post_count(db, today, local'[t].platform)
                /\ local'[t].i = 1
        /\ in_loop(t)'
             => /\ Len(local'[t].posts_to_process)
                     <= max_posts(local'[t].platform) - local'[t].today_posts
                /\ local'[t].i <= Len(local'[t].posts_to_process)
        /\ (in_loop(t) /\ in_loop(t)')
             => /\ local'[t].posts_to_process = local[t].posts_to_process
                /\ local'[t].today_posts = local[t].today_posts
                /\ local'[t].i \in {local[t].i, local[t].i + 1}
    ]_vars

\* a call has read a count above zero and has selected fewer posts than
\* are pending
C15_QuotaPartlyUsed ==
  \E t \in Threads :
    /\ pc[t] = "posting"
    /\ local[t].i = 1
    /\ local[t].today_posts > 0
    /\ Len(pending_posts(db, local[t].platform)) > Len(local[t].posts_to_process)

--------------------------------------------------------------------------
(* post_pending_content: whether every pending post gets its turn          *)

\* posting cycles keep being run: the scheduler starts the posting job of
\* each platform at its times of every day, the call of the main thread is
\* made, a round of the loop ends one way or the other, and a handler runs
PostingFairness ==
  /\ WF_vars(PostPendingContent("main", NO_PLATFORM))
  /\ \A platform \in Range(posting_config.platforms) :
       WF_vars(PostPendingContent("worker", platform))
  /\ \A t \in Threads :
       /\ WF_vars(\E outcome \in Outcomes : PostOne(t, outcome))
       /\ WF_vars(ExceptHandler(t))

SpecPostingFair == PostingInit /\ [][PostingNext]_vars /\ PostingFairness

\* the _ids a posts_ready record can have in the model
PostIds == 1..(2 * MaxPosts + 4)

\* the post with this _id is pending and its job is in jobs_clean
pending_with_job(oid) ==
  /\ found(db["posts_ready"], oid)
  /\ post_status(db, oid) = "pending"
  /\ found(db["jobs_clean"], find_one(db["posts_ready"], oid).job_id)

\* the post with this _id has been published or marked failed
posted_or_failed(oid) ==
  /\ found(db["posts_ready"], oid)
  /\ post_status(db, oid) \in {"posted", "failed"}

\* there is quota left today on every platform
quota_available ==
  \A platform \in Range(posting_config.platforms) :
    _get_today_post_count(db, today, platform) < max_posts(platform)

\* C16: if posting cycles keep being run and quota is available again and
\* again, every pending post whose job is in jobs_clean is eventually
\* published or marked failed
C16_PendingPostGetsItsTurn ==
  \A oid \in PostIds :
    ([]<>quota_available) => (pending_with_job(oid) ~> posted_or_failed(oid))

\* two posts are pending with the whole quota of the day left, and a call
\* is in the round of the first
C16_SecondPostWaits ==
  /\ quota_available
  /\ \E t \in Threads :
       /\ pc[t] = "posting"
       /\ local[t].i = 1
       /\ Len(local[t].posts_to_process) = 2
       /\ \A k \in 1..2 : pending_with_job(local[t].posts_to_process[k]._id)

--------------------------------------------------------------------------
(* caption_generator.py: validate_caption and optimize_caption, and the    *)
(* lines of _generate_captions_for_jobs that apply them to the caption of  *)
(* one platform.  A caption is the sequence of its code points; an emoji   *)
(* is one code point, written by its name.                                 *)

\* the `captions` section of the posting configuration: no platform has
\* an entry, so the defaults of validate_caption apply
caption_configs == [platform \in {} |-> <<>>]

\* the defaults of platform_config.get('max_length', 280) and of
\* platform_config.get('hashtag_count', ...) for linkedin and for x
default_max_length == 280

default_linkedin_hashtags == 4

default_x_hashtags == 2

NEWLINE == "\n"

\* the emojis of optimize_caption by platform
emojis ==
  [linkedin |-> <<"<rocket>", "<briefcase>", "<pin>", "<star>", "<fire>">>,
   x        |-> <<"<rocket>", "<briefcase>", "<pin>", "<fire>">>]

str_location == <<"l","o","c","a","t","i","o","n">>
str_skills == <<"s","k","i","l","l","s">>
str_apply == <<"a","p","p","l","y">>

\* caption.count('#')
count(s, c) == Cardinality({i \in 1..Len(s) : s[i] = c})

\* caption.split('\n'): the pieces between the separators, empty ones too
split_on(s, sep) ==
  LET cuts == {i \in 1..Len(s) : s[i] = sep}
      cut(n) == IF n = 0 THEN 0
                ELSE IF n > Cardinality(cuts) THEN Len(s) + 1
                ELSE CHOOSE i \in cuts : Cardinality({j \in cuts : j <= i}) = n
  IN  [n \in 1..(Cardinality(cuts) + 1) |-> SubSeq(s, cut(n - 1) + 1, cut(n) - 1)]

\* self.caption_configs.get(platform, {})
platform_config(platform) == py_get(caption_configs, platform, [k \in {} |-> 0])

validate_caption(caption, platform) ==
  LET config     == platform_config(platform)
      max_length == py_get(config, "max_length", default_max_length)
  IN  IF Len(caption) > max_length THEN FALSE
      ELSE IF platform = "linkedin"
           THEN count(caption, "#") >= py_get(config, "hashtag_count", default_linkedin_hashtags)
      ELSE IF platform = "x"
           THEN count(caption, "#") >= py_get(config, "hashtag_count", default_x_hashtags)
      ELSE TRUE

optimize_caption(caption, platform) ==
  LET platform_emojis == py_get(emojis, platform, <<>>)
      lines == split_on(caption, NEWLINE)
      optimized(i) ==
        IF i = 1 /\ platform_emojis # <<>>
          THEN <<platform_emojis[1], " ">> \o lines[i]
        ELSE IF contains(lower(lines[i]), str_location) /\ Len(platform_emojis) > 1
          THEN <<platform_emojis[2], " ">> \o lines[i]
        ELSE IF contains(lower(lines[i]), str_skills) /\ Len(platform_emojis) > 2
          THEN <<platform_emojis[3], " ">> \o lines[i]
        ELSE IF contains(lower(lines[i]), str_apply) /\ Len(platform_emojis) > 3
          THEN <<platform_emojis[4], " ">> \o lines[i]
        ELSE lines[i]
  IN  join(<<NEWLINE>>, [i \in 1..Len(lines) |-> optimized(i)])

\* the pending posts _generate_captions_for_jobs inserts for the caption
\* generated for one platform
pending_posts_of(job_id, platform, caption) ==
  IF validate_caption(caption, platform)
    THEN <<[job_id   |-> job_id,
            platform |-> platform,
            caption  |-> optimize_caption(caption, platform),
            status   |-> "pending"]>>
    ELSE <<>>

\* the bound of the model: how far the generated captions are from the
\* maximal length, on the short side
MaxSlack == 9

CaptionPlatforms == {"linkedin", "x", "facebook"}

TitleLine == <<"M","L"," ","D","e","v"," ","a","t"," ","A","c","m","e">>

BodyLines == <<<<"L","o","c","a","t","i","o","n",":"," ","P","u","n","e">>, <<"S","k","i","l","l","s",":"," ","S","Q","L">>, <<"A","p","p","l","y",":"," ","a","c","m","e",".","i","n","/","1">>>>

Hashtag == <<" ", "#", "j", "o", "b">>

RECURSIVE repeat(_, _)
repeat(s, n) == IF n = 0 THEN <<>> ELSE s \o repeat(s, n - 1)

\* a caption as the language model may return it: a title line, some of
\* the body lines, a line of tags, and a last line that fills the caption
\* up to the length
generated_caption(length, body, tags) ==
  LET head == join(<<NEWLINE>>,
                   <<TitleLine>> \o pick(BodyLines, body) \o <<repeat(Hashtag, tags)>>)
               \o <<NEWLINE>>
  IN  head \o [i \in 1..(length - Len(head)) |-> "."]

GeneratedCaptions ==
  {generated_caption(length, body, tags) :
     length \in (default_max_length - MaxSlack)..(default_max_length + 1),
     body \in SUBSET (1..Len(BodyLines)),
     tags \in {1, default_x_hashtags, default_linkedin_hashtags}}

CaptionInit ==
  /\ StoreInit
  /\ arg \in [platform : CaptionPlatforms, caption : GeneratedCaptions]
  /\ result = NoResult

StoreCaption ==
  /\ ~ result.done
  /\ result' = Result(pending_posts_of(1, arg.platform, arg.caption))
  /\ UNCHANGED <<filters, db, next_id, runs, today, pc, local, published, last, arg>>

SpecCaption == CaptionInit /\ [][StoreCaption]_vars

\* C17: every pending post created for a generated caption holds a caption
\* that validate_caption accepts for its platform: no longer than the
\* maximal length and with the required number of hashtags
C17_StoredCaptionIsValid ==
  result.done =>
    \A i \in 1..Len(result.value) :
      validate_caption(result.value[i].caption, result.value[i].platform)

\* a caption of the maximal length has been accepted and stored with its
\* emojis
C17_FullLengthCaptionStored ==
  /\ result.done
  /\ Len(arg.caption) = default_max_length
  /\ result.value # <<>>
  /\ Len(result.value[1].caption) > Len(arg.caption)

====
